---- MODULE Spec2Model ----
(***************************************************************************)
(* The serde_yml adapter of deserr (src/src/serde_yml.rs): the native YAML *)
(* value seen as a canonical Value (kind, into_value, the Map capability's *)
(* iterator), the way back (From<Value<V>> for YValue) and the generic     *)
(* container traversal of deserialize_from_value with its merge protocol.  *)
(*                                                                         *)
(* Native values (serde_yml::Value) are records:                           *)
(*   [t |-> "Null"]  [t |-> "Bool", b]  [t |-> "Number", n]               *)
(*   [t |-> "String", s]  [t |-> "Sequence", xs]  [t |-> "Mapping", es]   *)
(*   [t |-> "Tagged", tag, value]                                          *)
(* a Number n is [k |-> "PosInt", v], [k |-> "NegInt", v] or               *)
(* [k |-> "Float", f]; a Mapping keeps its entries <<key, value>> in       *)
(* insertion order, and a key is any native value.                         *)
(* Canonical values (deserr::Value<YValue>) are records:                   *)
(*   [c |-> "Null"] [c |-> "Boolean", b] [c |-> "Integer", u]             *)
(*   [c |-> "NegativeInteger", i] [c |-> "Float", f] [c |-> "String", s]  *)
(*   [c |-> "Sequence", xs] [c |-> "Map", es]   (children stay native)    *)
(* A 64-bit integer is scaled to Bits bits; a float is one of a few        *)
(* representative f64 values, written as a string.                         *)
(***************************************************************************)
EXTENDS Integers, Sequences, FiniteSets, TLC

\* ------------------------------------------------------------------ bounds

\* width of the machine integers (u64 / i64 scaled down)
Bits == 3
\* longest top-level container handed to an operation
MaxLen == 4

RECURSIVE Pow2(_)
Pow2(n) == IF n = 0 THEN 1 ELSE 2 * Pow2(n - 1)

U64_MAX == Pow2(Bits) - 1
I64_MAX == Pow2(Bits - 1) - 1
I64_MIN == 0 - Pow2(Bits - 1)

\* ------------------------------------------------------------- Option<T>

None == [some |-> FALSE]
Some(x) == [some |-> TRUE, x |-> x]

\* ------------------------------------------------- serde_yml::Number (N)

PosInt(v) == [k |-> "PosInt", v |-> v]
NegInt(v) == [k |-> "NegInt", v |-> v]
FloatN(f) == [k |-> "Float", f |-> f]

\* f64 values a canonical Float can carry; "-nan" is a NaN with the sign bit
F64 == {"0.5", "-1.5", "inf", "nan", "-nan"}

is_nan(f) == f \in {"nan", "-nan"}

\* Number::from(u64) with the u64 read as an i64 (`n as i64`) first
Number_from_u64_cast(u) ==
    IF u > I64_MAX THEN NegInt(u - Pow2(Bits)) ELSE PosInt(u)

\* Number::from(u64)
Number_from_u64(u) == PosInt(u)

\* Number::from(i64): a non-negative i64 is stored as PosInt
Number_from_i64(i) == IF i < 0 THEN NegInt(i) ELSE PosInt(i)

\* Number::from(f64): total; YAML has one NaN, sign and payload are dropped
Number_from_f64(f) == FloatN(IF is_nan(f) THEN "nan" ELSE f)

as_u64(n) == IF n.k = "PosInt" THEN Some(n.v) ELSE None

as_i64(n) ==
    CASE n.k = "PosInt" -> IF n.v <= I64_MAX THEN Some(n.v) ELSE None
      [] n.k = "NegInt" -> Some(n.v)
      [] OTHER -> None

\* Number::as_f64 is Some for every number; an integer widened to f64 is
\* written "int" (into_value never gets there with an integer)
as_f64(n) == IF n.k = "Float" THEN Some(n.f) ELSE Some("int")

is_u64(n) == n.k = "PosInt"

is_i64(n) ==
    CASE n.k = "PosInt" -> n.v <= I64_MAX
      [] n.k = "NegInt" -> TRUE
      [] OTHER -> FALSE

is_f64(n) == n.k = "Float"

\* --------------------------------------------------- native value builders

YNull == [t |-> "Null"]
YBool(b) == [t |-> "Bool", b |-> b]
YNumber(n) == [t |-> "Number", n |-> n]
YString(s) == [t |-> "String", s |-> s]
YSequence(xs) == [t |-> "Sequence", xs |-> xs]
YMapping(es) == [t |-> "Mapping", es |-> es]
YTagged(tag, y) == [t |-> "Tagged", tag |-> tag, value |-> y]

\* the abort of panic!()
Panic == [panic |-> TRUE]

\* ------------------------------------------------------ IntoValue for YValue

\* into_value with the signed test before the unsigned one
RECURSIVE into_value_signed_first(_)
into_value_signed_first(y) ==
    CASE y.t = "Null" -> [c |-> "Null"]
      [] y.t = "Bool" -> [c |-> "Boolean", b |-> y.b]
      [] y.t = "Number" ->
            IF as_i64(y.n).some THEN [c |-> "NegativeInteger", i |-> as_i64(y.n).x]
            ELSE IF as_u64(y.n).some THEN [c |-> "Integer", u |-> as_u64(y.n).x]
            ELSE IF as_f64(y.n).some THEN [c |-> "Float", f |-> as_f64(y.n).x]
            ELSE Panic
      [] y.t = "String" -> [c |-> "String", s |-> y.s]
      [] y.t = "Sequence" -> [c |-> "Sequence", xs |-> y.xs]
      [] y.t = "Mapping" -> [c |-> "Map", es |-> y.es]
      [] y.t = "Tagged" -> into_value_signed_first(y.value)

RECURSIVE into_value(_)
into_value(y) ==
    CASE y.t = "Null" -> [c |-> "Null"]
      [] y.t = "Bool" -> [c |-> "Boolean", b |-> y.b]
      [] y.t = "Number" ->
            IF as_u64(y.n).some THEN [c |-> "Integer", u |-> as_u64(y.n).x]
            ELSE IF as_i64(y.n).some THEN [c |-> "NegativeInteger", i |-> as_i64(y.n).x]
            ELSE IF as_f64(y.n).some THEN [c |-> "Float", f |-> as_f64(y.n).x]
            ELSE Panic
      [] y.t = "String" -> [c |-> "String", s |-> y.s]
      [] y.t = "Sequence" -> [c |-> "Sequence", xs |-> y.xs]
      [] y.t = "Mapping" -> [c |-> "Map", es |-> y.es]
      [] y.t = "Tagged" -> into_value(y.value)

\* kind that reports a Tagged node by its own discriminant
RECURSIVE kind_tag_opaque(_)
kind_tag_opaque(y) ==
    CASE y.t = "Null" -> "Null"
      [] y.t = "Bool" -> "Boolean"
      [] y.t = "Number" ->
            IF is_u64(y.n) THEN "Integer"
            ELSE IF is_i64(y.n) THEN "NegativeInteger"
            ELSE IF is_f64(y.n) THEN "Float"
            ELSE "Panic"
      [] y.t = "String" -> "String"
      [] y.t = "Sequence" -> "Sequence"
      [] y.t = "Mapping" -> "Map"
      [] y.t = "Tagged" -> "String"

RECURSIVE kind(_)
kind(y) ==
    CASE y.t = "Null" -> "Null"
      [] y.t = "Bool" -> "Boolean"
      [] y.t = "Number" ->
            IF is_u64(y.n) THEN "Integer"
            ELSE IF is_i64(y.n) THEN "NegativeInteger"
            ELSE IF is_f64(y.n) THEN "Float"
            ELSE "Panic"
      [] y.t = "String" -> "String"
      [] y.t = "Sequence" -> "Sequence"
      [] y.t = "Mapping" -> "Map"
      [] y.t = "Tagged" -> kind(y.value)

\* -------------------------------------------------------- Map for YMap

\* YMapIter::next over the remaining entries: None at the end, the entry
\* with its key as text, or the abort when the key is not a String
YMapIter_next(iter) ==
    IF iter = <<>> THEN None
    ELSE IF Head(iter)[1].t = "String"
         THEN [some |-> TRUE, key |-> Head(iter)[1].s, value |-> Head(iter)[2]]
         ELSE Panic

IsPanic(r) == "panic" \in DOMAIN r

\* YMap::insert / YMap::from_iter step: a present key keeps its place and
\* takes the new value, a new key goes last
YMap_insert(es, k, v) ==
    IF \E j \in 1..Len(es) : es[j][1] = k
    THEN [j \in 1..Len(es) |-> IF es[j][1] = k THEN <<k, v>> ELSE es[j]]
    ELSE Append(es, <<k, v>>)

\* ------------------------------------------- From<Value<V>> for YValue

Done(y) == [done |-> y]

RECURSIVE YValue_from(_), from_seq(_, _), from_map(_, _)

\* YValue::from: Done(y), or Panic when a map iteration aborts
YValue_from(value) ==
    CASE value.c = "Null" -> Done(YNull)
      [] value.c = "Boolean" -> Done(YBool(value.b))
      [] value.c = "Integer" -> Done(YNumber(Number_from_u64(value.u)))
      [] value.c = "NegativeInteger" -> Done(YNumber(Number_from_i64(value.i)))
      [] value.c = "Float" -> Done(YNumber(Number_from_f64(value.f)))
      [] value.c = "String" -> Done(YString(value.s))
      [] value.c = "Sequence" -> from_seq(value.xs, <<>>)
      [] value.c = "Map" -> from_map(value.es, <<>>)

\* s.into_iter().map(into_value).map(YValue::from).collect()
from_seq(xs, acc) ==
    IF xs = <<>> THEN Done(YSequence(acc))
    ELSE LET v == into_value(Head(xs)) IN
         IF IsPanic(v) THEN Panic
         ELSE LET r == YValue_from(v) IN
              IF IsPanic(r) THEN Panic
              ELSE from_seq(Tail(xs), Append(acc, r.done))

\* YMap::from_iter(m.into_iter().map(|(k, v)| (String(k), from(v.into_value()))))
from_map(iter, acc) ==
    LET n == YMapIter_next(iter) IN
    IF IsPanic(n) THEN Panic
    ELSE IF ~n.some THEN Done(YMapping(acc))
    ELSE LET v == into_value(n.value) IN
         IF IsPanic(v) THEN Panic
         ELSE LET r == YValue_from(v) IN
              IF IsPanic(r) THEN Panic
              ELSE from_map(Tail(iter), YMap_insert(acc, YString(n.key), r.done))

\* ------------------------------------------------------ ValuePointerRef

Origin == <<>>
push_index(location, index) == Append(location, [i |-> index])
push_key(location, key) == Append(location, [key |-> key])

\* ------------------------------------------------ DeserializeError::merge

Policies == {"FailFast", "CollectAll", "CapPerLevel"}

\* An error value is a sequence of failures [got |-> kind, loc |-> location].
\* FailFast:    Break(new), whatever was accumulated.
\* CollectAll:  Continue(accumulated followed by new).
\* CapPerLevel: a hybrid; the first failure handed to a traversal is kept,
\*              the next one ends that traversal.
merge(pol, acc, new, location) ==
    CASE pol = "FailFast" -> [cf |-> "Break", e |-> new]
      [] pol = "CollectAll" ->
            [cf |-> "Continue", e |-> (IF acc.some THEN acc.x ELSE <<>>) \o new]
      [] pol = "CapPerLevel" ->
            IF acc.some THEN [cf |-> "Break", e |-> acc.x \o new]
            ELSE [cf |-> "Continue", e |-> new]

\* ------------------------------------------------------ Result<Self, E>

Ok(v) == [ok |-> TRUE, v |-> v]
Err(e) == [ok |-> FALSE, e |-> e]

\* --------------------------------- deserialize_from_value, the scalar arms

Targets == {"YValue", "U64"}

ScalarKinds == {"Null", "Boolean", "Integer", "NegativeInteger", "Float", "String"}

\* the scalar arms with NegativeInteger stored as NegInt whatever its sign
scalar_YValue_raw_negative(value) ==
    CASE value.c = "Null" -> YNull
      [] value.c = "Boolean" -> YBool(value.b)
      [] value.c = "Integer" -> YNumber(Number_from_u64(value.u))
      [] value.c = "NegativeInteger" -> YNumber(NegInt(value.i))
      [] value.c = "Float" -> YNumber(Number_from_f64(value.f))
      [] value.c = "String" -> YString(value.s)

\* Target YValue: the six scalar arms of the match; they never fail.
scalar_YValue(value) ==
    CASE value.c = "Null" -> YNull
      [] value.c = "Boolean" -> YBool(value.b)
      [] value.c = "Integer" -> YNumber(Number_from_u64(value.u))
      [] value.c = "NegativeInteger" -> YNumber(Number_from_i64(value.i))
      [] value.c = "Float" -> YNumber(Number_from_f64(value.f))
      [] value.c = "String" -> YString(value.s)

\* Target U64, an element type whose conversion can fail: an Integer is
\* taken (the u64 n is written YNumber(PosInt(n))), any other kind is a
\* type mismatch tagged with the current location.
scalar_U64(value, location) ==
    IF value.c = "Integer" THEN Ok(YNumber(PosInt(value.u)))
    ELSE Err(<<[got |-> value.c, loc |-> location]>>)

scalar(tgt, value, location) ==
    IF tgt = "YValue" THEN Ok(scalar_YValue(value)) ELSE scalar_U64(value, location)

\* ------------------------------------------------------------ the inputs

\* every Number a parser builds: PosInt over u64, NegInt over the negative
\* i64 (Number::from(i64) never keeps a non-negative NegInt), Float with
\* the one NaN
Numbers ==
    {PosInt(v) : v \in 0..U64_MAX} \cup {NegInt(v) : v \in I64_MIN..(0 - 1)}
        \cup {FloatN(f) : f \in F64 \ {"-nan"}}

Scalars ==
    {YNull, YBool(TRUE), YBool(FALSE), YString("a"), YString("x")}
        \cup {YNumber(n) : n \in Numbers}

good == YNumber(PosInt(U64_MAX))
bad == YString("x")

\* a nested map holding a sequence, and a nested sequence holding it
inner_map == YMapping(<< <<YString("a"), bad>>, <<YString("b"), YSequence(<<bad, good>>)>> >>)
inner_seq == YSequence(<<good, inner_map, bad>>)

\* a map whose key is a number, as the YAML text `1: x` parses
number_keyed == YMapping(<< <<YNumber(PosInt(1)), bad>> >>)

\* the elements of the sequences handed to deserialize_from_value
Elems == {good, bad, inner_seq}

Keys == <<"k1", "k2", "k3">>

SeqsUpTo(S, n) == UNION {[1..k -> S] : k \in 0..n}

Sequences ==
    {YSequence(xs) : xs \in SeqsUpTo(Elems, MaxLen)}
        \cup {YSequence(<<good, number_keyed, bad>>),
              YSequence(<<YTagged("!t", good), YTagged("!t", bad), inner_map>>)}

\* maps with text keys in insertion order, and maps with a key that is not text
Mappings ==
    {YMapping([j \in 1..Len(vs) |-> <<YString(Keys[j]), vs[j]>>]) :
        vs \in SeqsUpTo(Elems \cup {inner_map, number_keyed}, 2)}
        \cup {number_keyed,
              YMapping(<< <<YString("k1"), bad>>, <<YSequence(<<>>), good>>, <<YString("k3"), good>> >>)}

Wrapped(S) == {YTagged(tag, y) : tag \in {"!t"}, y \in S}

Small ==
    Scalars \cup Elems \cup {inner_map, number_keyed}
        \cup {YSequence(<<>>), YSequence(<<good, YNumber(NegInt(0 - 1)), YNumber(FloatN("nan"))>>),
              YMapping(<< <<YString("The"), YString("best")>>,
                          <<YString("doggos"), YSequence(<<YString("are")>>)>>,
                          <<YString("the"), YMapping(<< <<YString("bernese"), YString("mountain")>> >>)>> >>)}

\* the native trees handed to kind, into_value and the round trip
Natives == Small \cup Wrapped(Small) \cup Wrapped(Wrapped(Small))

\* canonical scalars no into_value of this adapter produces but the type admits
OtherCanonical ==
    {[c |-> "Float", f |-> f] : f \in F64}
        \cup {[c |-> "NegativeInteger", i |-> i] : i \in I64_MIN..I64_MAX}
        \cup {[c |-> "Integer", u |-> u] : u \in 0..U64_MAX}

\* the canonical values handed to deserialize_from_value
Canonicals ==
    {into_value(y) : y \in Sequences \cup Mappings \cup Scalars} \cup OtherCanonical

Locations == {Origin, push_key(Origin, "root")}

\* ------------------------------------------------------------- the state

VARIABLES
    op,        \* the operation under way
    arg,       \* its argument: a native value, or a canonical one (from, deser)
    policy,    \* the merge policy E of deserialize_from_value
    target,    \* the target type of deserialize_from_value
    base,      \* the location deserialize_from_value was called with
    pc,        \* "idle", "call", "loop", "ret", "iter", "done", "aborted"
    cur,       \* the call being entered: [value, location]
    stack,     \* the container traversals under way, innermost last
    ret,       \* the Result a call has just returned
    result,    \* the operation's result
    visited,   \* the locations deserialize_from_value was entered with, in order
    merges     \* the calls of E::merge, in order

vars == <<op, arg, policy, target, base, pc, cur, stack, ret, result, visited, merges>>

Init ==
    /\ op = "none"
    /\ arg = YNull
    /\ policy = "FailFast"
    /\ target = "YValue"
    /\ base = Origin
    /\ pc = "idle"
    /\ cur = [value |-> [c |-> "Null"], location |-> Origin]
    /\ stack = <<>>
    /\ ret = Ok(YNull)
    /\ result = Ok(YNull)
    /\ visited = <<>>
    /\ merges = <<>>

\* ------------------------------------------------ the one-step operations

\* y.kind()
Kind(y) ==
    /\ pc = "idle"
    /\ op' = "kind"
    /\ arg' = y
    /\ result' = [kind |-> kind(y)]
    /\ pc' = IF kind(y) = "Panic" THEN "aborted" ELSE "done"
    /\ UNCHANGED <<policy, target, base, cur, stack, ret, visited, merges>>

\* y.into_value()
IntoValue(y) ==
    /\ pc = "idle"
    /\ op' = "into_value"
    /\ arg' = y
    /\ result' = into_value(y)
    /\ pc' = IF IsPanic(into_value(y)) THEN "aborted" ELSE "done"
    /\ UNCHANGED <<policy, target, base, cur, stack, ret, visited, merges>>

\* value.clone().into_value().into(): native to canonical and back
RoundTrip(y) ==
    /\ pc = "idle"
    /\ op' = "roundtrip"
    /\ arg' = y
    /\ LET v == into_value(y)
           r == IF IsPanic(v) THEN Panic ELSE YValue_from(v)
       IN /\ result' = r
          /\ pc' = IF IsPanic(r) THEN "aborted" ELSE "done"
    /\ UNCHANGED <<policy, target, base, cur, stack, ret, visited, merges>>

\* YValue::from(value) of a canonical value
From(value) ==
    /\ pc = "idle"
    /\ op' = "from"
    /\ arg' = value
    /\ result' = YValue_from(value)
    /\ pc' = IF IsPanic(YValue_from(value)) THEN "aborted" ELSE "done"
    /\ UNCHANGED <<policy, target, base, cur, stack, ret, visited, merges>>

\* ------------------------------------------- iterating a map (Map::into_iter)

\* <YMap as Map>::into_iter(m): the iterator over m's entries
MapIntoIter(m) ==
    /\ pc = "idle"
    /\ op' = "iter"
    /\ arg' = m
    /\ cur' = [iter |-> m.es]
    /\ result' = [items |-> <<>>]
    /\ pc' = "iter"
    /\ UNCHANGED <<policy, target, base, stack, ret, visited, merges>>

\* YMapIter::next yields an entry
IterYield ==
    /\ pc = "iter"
    /\ LET n == YMapIter_next(cur.iter) IN
       /\ ~IsPanic(n)
       /\ n.some
       /\ result' = [items |-> Append(result.items, <<n.key, n.value>>)]
       /\ cur' = [iter |-> Tail(cur.iter)]
    /\ UNCHANGED <<op, arg, policy, target, base, pc, stack, ret, visited, merges>>

\* YMapIter::next returns None
IterEnd ==
    /\ pc = "iter"
    /\ LET n == YMapIter_next(cur.iter) IN ~IsPanic(n) /\ ~n.some
    /\ pc' = "done"
    /\ UNCHANGED <<op, arg, policy, target, base, cur, stack, ret, result, visited, merges>>

\* YMapIter::next meets a key that is not a String: panic!()
IterPanic ==
    /\ pc = "iter"
    /\ IsPanic(YMapIter_next(cur.iter))
    /\ pc' = "aborted"
    /\ UNCHANGED <<op, arg, policy, target, base, cur, stack, ret, result, visited, merges>>

\* --------------------------------------------- deserialize_from_value

\* A traversal under way (one activation of the Sequence or the Map arm):
\*   c        "Sequence" or "Map"
\*   rest     the elements (entries) the iterator has not yielded yet
\*   index    the number of elements taken so far (enumerate, Sequence arm)
\*   step     the location of the element in flight
\*   out      yseq (the values pushed) or jmap (the entries inserted)
\*   error    the local `error: Option<E>`
\*   location the location the traversal was called with
Frame(c, rest, location) ==
    [c |-> c, rest |-> rest, index |-> 0, step |-> location, out |-> <<>>,
     error |-> None, location |-> location]

Top == stack[Len(stack)]
Pop == SubSeq(stack, 1, Len(stack) - 1)
SetTop(f) == [stack EXCEPT ![Len(stack)] = f]

\* the caller hands a canonical value, a location, a policy and a target
Deserialize(value, location, pol, tgt) ==
    /\ pc = "idle"
    /\ op' = "deser"
    /\ arg' = value
    /\ policy' = pol
    /\ target' = tgt
    /\ base' = location
    /\ cur' = [value |-> value, location |-> location]
    /\ pc' = "call"
    /\ UNCHANGED <<stack, ret, result, visited, merges>>

\* a scalar arm: the call returns at once
CallScalar ==
    /\ pc = "call"
    /\ cur.value.c \in ScalarKinds
    /\ ret' = scalar(target, cur.value, cur.location)
    /\ visited' = Append(visited, cur.location)
    /\ pc' = "ret"
    /\ UNCHANGED <<op, arg, policy, target, base, cur, stack, result, merges>>

\* Value::Sequence(seq): yseq = Vec::with_capacity, the loop starts
CallSequence ==
    /\ pc = "call"
    /\ cur.value.c = "Sequence"
    /\ stack' = Append(stack, Frame("Sequence", cur.value.xs, cur.location))
    /\ visited' = Append(visited, cur.location)
    /\ pc' = "loop"
    /\ UNCHANGED <<op, arg, policy, target, base, cur, ret, result, merges>>

\* Value::Map(map): jmap = YMap::with_capacity, the loop starts
CallMap ==
    /\ pc = "call"
    /\ cur.value.c = "Map"
    /\ stack' = Append(stack, Frame("Map", cur.value.es, cur.location))
    /\ visited' = Append(visited, cur.location)
    /\ pc' = "loop"
    /\ UNCHANGED <<op, arg, policy, target, base, cur, ret, result, merges>>

\* the sequence loop takes the next element and recurses on its into_value()
\* with location.push_index(index)
SeqNext ==
    /\ pc = "loop"
    /\ Top.c = "Sequence"
    /\ Top.rest # <<>>
    /\ LET loc == push_index(Top.location, Top.index)
           v == into_value(Head(Top.rest))
       IN /\ stack' = SetTop([Top EXCEPT !.rest = Tail(Top.rest),
                                         !.index = Top.index + 1,
                                         !.step = loc])
          /\ cur' = [value |-> v, location |-> loc]
          /\ pc' = IF IsPanic(v) THEN "aborted" ELSE "call"
    /\ UNCHANGED <<op, arg, policy, target, base, ret, result, visited, merges>>

\* the map loop takes the next entry and recurses with location.push_key(&key)
MapNext ==
    /\ pc = "loop"
    /\ Top.c = "Map"
    /\ LET n == YMapIter_next(Top.rest) IN
       /\ ~IsPanic(n)
       /\ n.some
       /\ LET loc == push_key(Top.location, n.key)
              v == into_value(n.value)
          IN /\ stack' = SetTop([Top EXCEPT !.rest = Tail(Top.rest), !.step = loc])
             /\ cur' = [value |-> v, location |-> loc]
             /\ pc' = IF IsPanic(v) THEN "aborted" ELSE "call"
    /\ UNCHANGED <<op, arg, policy, target, base, ret, result, visited, merges>>

\* the map loop's iterator meets a key that is not a String: panic!()
MapKeyPanic ==
    /\ pc = "loop"
    /\ Top.c = "Map"
    /\ IsPanic(YMapIter_next(Top.rest))
    /\ pc' = "aborted"
    /\ UNCHANGED <<op, arg, policy, target, base, cur, stack, ret, result, visited, merges>>

LoopOver ==
    /\ pc = "loop"
    /\ IF Top.c = "Sequence" THEN Top.rest = <<>>
       ELSE LET n == YMapIter_next(Top.rest) IN ~IsPanic(n) /\ ~n.some

built(f) == IF f.c = "Sequence" THEN YSequence(f.out) ELSE YMapping(f.out)

\* the check after the loop left out: what was built is returned even
\* though elements failed
after_loop_dropping_failures(f) == Ok(built(f))

\* if let Some(e) = error { return Err(e) } else { the container }
after_loop(f) == IF f.error.some THEN Err(f.error.x) ELSE Ok(built(f))

\* the loop is over: the traversal returns
LoopEnd ==
    /\ LoopOver
    /\ ret' = after_loop(Top)
    /\ stack' = Pop
    /\ pc' = "ret"
    /\ UNCHANGED <<op, arg, policy, target, base, cur, result, visited, merges>>

\* Ok(value): yseq.push(value) or jmap.insert(YValue::String(key), value)
push(f, v) ==
    IF f.c = "Sequence"
    THEN [f EXCEPT !.out = Append(f.out, v)]
    ELSE [f EXCEPT !.out = YMap_insert(f.out, YString(f.step[Len(f.step)].key), v)]

\* the recursive call returned Ok(value)
ElemOk ==
    /\ pc = "ret"
    /\ stack # <<>>
    /\ ret.ok
    /\ stack' = SetTop(push(Top, ret.v))
    /\ pc' = "loop"
    /\ UNCHANGED <<op, arg, policy, target, base, cur, ret, result, visited, merges>>

\* E::merge handed None in place of the local error
merge_args_forgetful(f, e) == [acc |-> None, new |-> e, location |-> f.step]

\* the arguments of E::merge(error, e, location.push_index(index)), or
\* location.push_key(&key) in the Map arm
merge_args(f, e) == [acc |-> f.error, new |-> e, location |-> f.step]

\* both arms of the match keep the error and go on
control_ignoring_break(m) == "Continue"

\* the two arms of the match exchanged
control_swapped(m) == IF m.cf = "Continue" THEN "Break" ELSE "Continue"

\* the match on the ControlFlow that E::merge returned
control(m) == m.cf

\* the record of one E::merge call: its arguments, its answer and how many
\* calls of deserialize_from_value had been entered by then
MergeCall(a, m) ==
    [acc |-> a.acc, new |-> a.new, location |-> a.location, cf |-> m.cf, out |-> m.e,
     entered |-> Len(visited)]

\* the recursive call returned Err(e) and E::merge answers Continue(e):
\* error = Some(e), the loop goes on
ElemErrContinue ==
    /\ pc = "ret"
    /\ stack # <<>>
    /\ ~ret.ok
    /\ LET a == merge_args(Top, ret.e)
           m == merge(policy, a.acc, a.new, a.location)
       IN /\ control(m) = "Continue"
          /\ stack' = SetTop([Top EXCEPT !.error = Some(m.e)])
          /\ merges' = Append(merges, MergeCall(a, m))
    /\ pc' = "loop"
    /\ UNCHANGED <<op, arg, policy, target, base, cur, ret, result, visited>>

\* the recursive call returned Err(e) and E::merge answers Break(e):
\* return Err(e), the traversal is dropped with what it had built
ElemErrBreak ==
    /\ pc = "ret"
    /\ stack # <<>>
    /\ ~ret.ok
    /\ LET a == merge_args(Top, ret.e)
           m == merge(policy, a.acc, a.new, a.location)
       IN /\ control(m) = "Break"
          /\ ret' = Err(m.e)
          /\ merges' = Append(merges, MergeCall(a, m))
    /\ stack' = Pop
    /\ UNCHANGED <<op, arg, policy, target, base, pc, cur, result, visited>>

\* the outermost call returns to the caller
Return ==
    /\ pc = "ret"
    /\ stack = <<>>
    /\ result' = ret
    /\ pc' = "done"
    /\ UNCHANGED <<op, arg, policy, target, base, cur, stack, ret, visited, merges>>

\* ------------------------------------------------------ the specification

Next ==
    \/ pc = "idle" /\ \E y \in Natives : Kind(y)
    \/ pc = "idle" /\ \E y \in Natives : IntoValue(y)
    \/ pc = "idle" /\ \E y \in Natives : RoundTrip(y)
    \/ pc = "idle" /\ \E value \in OtherCanonical : From(value)
    \/ pc = "idle" /\ \E m \in Mappings : MapIntoIter(m)
    \/ IterYield
    \/ IterEnd
    \/ IterPanic
    \/ pc = "idle" /\ \E value \in Canonicals, location \in Locations, pol \in Policies,
                         tgt \in Targets : Deserialize(value, location, pol, tgt)
    \/ CallScalar
    \/ CallSequence
    \/ CallMap
    \/ SeqNext
    \/ MapNext
    \/ MapKeyPanic
    \/ LoopEnd
    \/ ElemOk
    \/ ElemErrContinue
    \/ ElemErrBreak
    \/ Return

Spec == Init /\ [][Next]_vars

\* ------------------------------------------- what the properties speak of

RECURSIVE Strip(_)
\* the value inside every Tagged wrapper
Strip(y) == IF y.t = "Tagged" THEN Strip(y.value) ELSE y

RECURSIVE Plain(_)
\* built from null, booleans, numbers, strings, sequences and maps with
\* text keys only
Plain(y) ==
    CASE y.t = "Sequence" -> \A j \in 1..Len(y.xs) : Plain(y.xs[j])
      [] y.t = "Mapping" ->
            \A j \in 1..Len(y.es) : y.es[j][1].t = "String" /\ Plain(y.es[j][2])
      [] y.t = "Tagged" -> FALSE
      [] OTHER -> TRUE

\* the classification the specification fixes: unsigned, then signed, then float
Whole(n, lo, hi) == n.k \in {"PosInt", "NegInt"} /\ lo <= n.v /\ n.v <= hi
Classified(n) ==
    IF Whole(n, 0, U64_MAX) THEN "Integer"
    ELSE IF Whole(n, I64_MIN, I64_MAX) THEN "NegativeInteger"
    ELSE "Float"

RECURSIVE HasFailingLeaf(_)
\* under target U64: some scalar inside y is not an Integer
HasFailingLeaf(y) ==
    CASE y.t = "Sequence" -> \E j \in 1..Len(y.xs) : HasFailingLeaf(y.xs[j])
      [] y.t = "Mapping" -> \E j \in 1..Len(y.es) : HasFailingLeaf(y.es[j][2])
      [] y.t = "Tagged" -> HasFailingLeaf(y.value)
      [] OTHER -> kind(y) # "Integer"

Fails(y) == target = "U64" /\ HasFailingLeaf(y)

\* the indices (from 0) of the elements of the sequence arg that fail
FailingIdx == {j \in 0..(Len(arg.xs) - 1) : Fails(arg.xs[j + 1])}

Lowest(S) == CHOOSE j \in S : \A other \in S : j <= other

RECURSIVE FirstFailure(_, _)
\* the failure of the first failing scalar of y, the tree at `location`,
\* in the order of the traversal
FirstFailure(y, location) ==
    CASE y.t = "Sequence" ->
            LET j == Lowest({m \in 1..Len(y.xs) : HasFailingLeaf(y.xs[m])})
            IN FirstFailure(y.xs[j], push_index(location, j - 1))
      [] y.t = "Mapping" ->
            LET j == Lowest({m \in 1..Len(y.es) : HasFailingLeaf(y.es[m][2])})
            IN FirstFailure(y.es[j][2], push_key(location, y.es[j][1].s))
      [] y.t = "Tagged" -> FirstFailure(y.value, location)
      [] OTHER -> [got |-> kind(y), loc |-> location]

IsPrefix(p, q) == Len(p) <= Len(q) /\ SubSeq(q, 1, Len(p)) = p
Parent(location) == SubSeq(location, 1, Len(location) - 1)

Depth == Len(base) + 1
\* the merge calls of the outermost traversal
TopMerges == SelectSeq(merges, LAMBDA m : Len(m.location) = Depth)
\* the indices of the outermost sequence's elements that were converted
VisitedIdx == {visited[j][Depth].i : j \in {m \in 1..Len(visited) : Len(visited[m]) = Depth}}
\* the index below the outermost sequence that a location lies under
IdxOf(location) == location[Depth].i

SeqRun == op = "deser" /\ arg.c = "Sequence"

AlternatingFailures ==
    /\ SeqRun
    /\ target = "U64"
    /\ arg.xs = <<good, bad, good, bad>>

\* --------------------------------------------------------- the properties

\* C1: under a policy that always breaks, the outermost sequence traversal
\* calls merge at most once, no call of deserialize_from_value is entered
\* after any merge call, only indices up to the lowest failing one are
\* visited, and the result is exactly the failure of the lowest failing index.
C1_FailFast ==
    (SeqRun /\ policy = "FailFast") =>
        /\ Len(TopMerges) <= 1
        /\ \A k \in 1..Len(merges) : merges[k].entered = Len(visited)
        /\ \A j \in VisitedIdx : FailingIdx = {} \/ j <= Lowest(FailingIdx)
        /\ (pc = "done" /\ FailingIdx # {}) =>
              LET low == Lowest(FailingIdx) IN
              /\ result = Err(<<FirstFailure(arg.xs[low + 1], push_index(base, low))>>)
              /\ Len(TopMerges) = 1
              /\ TopMerges[1].location = push_index(base, low)
              /\ VisitedIdx = 0..low

C1_Witness ==
    /\ AlternatingFailures
    /\ policy = "FailFast"
    /\ pc = "done"
    /\ result = Err(<<[got |-> "String", loc |-> push_index(base, 1)]>>)
    /\ VisitedIdx = {0, 1}

\* the failing indices in increasing order
RECURSIVE Sorted(_)
Sorted(S) == IF S = {} THEN <<>> ELSE <<Lowest(S)>> \o Sorted(S \ {Lowest(S)})

\* C2: under a policy that always continues, a finished traversal of a
\* sequence has visited every element, has called merge once per failing
\* element in increasing index order, each time with the error accumulated
\* so far and the location extended by the element's index, and returns an
\* error whose failures lie under exactly the failing indices.
C2_CollectAll ==
    (SeqRun /\ policy = "CollectAll" /\ pc = "done") =>
        LET failing == Sorted(FailingIdx) IN
        /\ VisitedIdx = 0..(Len(arg.xs) - 1)
        /\ Len(TopMerges) = Len(failing)
        /\ \A k \in 1..Len(TopMerges) :
              /\ TopMerges[k].location = push_index(base, failing[k])
              /\ TopMerges[k].cf = "Continue"
              /\ TopMerges[k].acc = IF k = 1 THEN None ELSE Some(TopMerges[k - 1].out)
        /\ FailingIdx # {} =>
              /\ ~result.ok
              /\ {IdxOf(result.e[k].loc) : k \in 1..Len(result.e)} = FailingIdx

C2_Witness ==
    /\ AlternatingFailures
    /\ policy = "CollectAll"
    /\ pc = "done"
    /\ result = Err(<<[got |-> "String", loc |-> push_index(base, 1)],
                      [got |-> "String", loc |-> push_index(base, 3)]>>)
    /\ Len(TopMerges) = 2

\* C3: a native value without tags and with text keys only goes to canonical
\* form and back unchanged: same scalars, same order, same entries at every level.
C3_RoundTrip ==
    (op = "roundtrip" /\ Plain(arg)) => (pc = "done" /\ result = Done(arg))

C3_Witness ==
    /\ op = "roundtrip"
    /\ arg.t = "Mapping"
    /\ Len(arg.es) = 3
    /\ arg.es[3][2].t = "Mapping"
    /\ result = Done(arg)

\* C5: kind and into_value classify every native number alike, as Integer
\* when it is a whole number in the u64 range, else as NegativeInteger when
\* it is a whole number in the i64 range, else as Float; into_value keeps
\* the number's value; neither aborts or answers another kind.
C5_Classification ==
    /\ (op = "kind" /\ arg.t = "Number") =>
          (pc = "done" /\ result.kind = Classified(arg.n))
    /\ (op = "into_value" /\ arg.t = "Number") =>
          /\ pc = "done"
          /\ result.c = Classified(arg.n)
          /\ result.c = kind(arg)
          /\ result.c = "Integer" => result.u = arg.n.v
          /\ result.c = "NegativeInteger" => result.i = arg.n.v
          /\ result.c = "Float" => result.f = arg.n.f

C5_Witness ==
    /\ op = "into_value"
    /\ arg = YNumber(PosInt(U64_MAX))
    /\ result = [c |-> "Integer", u |-> U64_MAX]

\* C6: kind and into_value of a value under any number of Tagged wrappers
\* are those of the value inside; the tag plays no part.
C6_Transparent ==
    /\ (op = "kind" /\ arg.t = "Tagged") => result = [kind |-> kind(Strip(arg))]
    /\ (op = "into_value" /\ arg.t = "Tagged") => result = into_value(Strip(arg))

C6_Witness ==
    /\ op = "kind"
    /\ arg.t = "Tagged"
    /\ arg.value.t = "Tagged"
    /\ arg.value.value.t = "Mapping"
    /\ result = [kind |-> "Map"]

\* C7: no operation ends in an abort.
C7_NeverAborts == pc # "aborted"

\* C8 as claimed: once merge has answered Break inside a nested traversal,
\* no further call of deserialize_from_value is entered at any level, and
\* the error of that Break is what the outermost caller gets.
C8_BreakEndsEverything ==
    op = "deser" =>
        \A k \in 1..Len(merges) :
            (merges[k].cf = "Break" /\ Len(merges[k].location) > Depth) =>
                /\ Len(visited) = merges[k].entered
                /\ pc = "done" => result = Err(merges[k].out)

\* C8 amended: once merge has answered Break, nothing more is converted
\* inside the traversal that called it, and no container is returned for
\* it: its error goes to the enclosing traversal, which hands it to merge
\* in its turn (to the caller when there is none), and a traversal that ran
\* a merge never returns a container; under a policy that always breaks,
\* nothing at all is converted afterwards and the caller gets that error.
C8_BreakEndsTraversal ==
    op = "deser" =>
        /\ \A k \in 1..Len(merges) :
              merges[k].cf = "Break" =>
                  /\ \A j \in (merges[k].entered + 1)..Len(visited) :
                        ~IsPrefix(Parent(merges[k].location), visited[j])
                  /\ k < Len(merges) =>
                        /\ merges[k + 1].new = merges[k].out
                        /\ merges[k + 1].location = Parent(merges[k].location)
                  /\ (k = Len(merges) /\ pc \in {"ret", "done"}) => ret = Err(merges[k].out)
                  /\ policy = "FailFast" =>
                        /\ Len(visited) = merges[k].entered
                        /\ pc = "done" => result = Err(merges[k].out)
        /\ (pc = "done" /\ merges # <<>>) => ~result.ok

C8_Witness ==
    /\ op = "deser"
    /\ policy = "CapPerLevel"
    /\ pc = "done"
    /\ \E k \in 1..Len(merges) :
          /\ merges[k].cf = "Break"
          /\ Len(merges[k].location) > Depth
          /\ Len(visited) > merges[k].entered
          /\ k < Len(merges)

\* C9: a finished sequence traversal returns a value exactly when no
\* element failed; the value is then a sequence as long as the input whose
\* i-th element is the i-th input element converted; when an element
\* failed the result is an error.
C9_ContainerResult ==
    (SeqRun /\ pc = "done") =>
        /\ result.ok <=> FailingIdx = {}
        /\ result.ok =>
              /\ result.v.t = "Sequence"
              /\ Len(result.v.xs) = Len(arg.xs)
              /\ \A j \in 1..Len(arg.xs) :
                    Done(result.v.xs[j]) = YValue_from(into_value(arg.xs[j]))

C9_Witness ==
    /\ SeqRun
    /\ pc = "done"
    /\ Len(arg.xs) = MaxLen
    /\ arg.xs[1] = inner_seq
    /\ arg.xs[2] = good
    /\ arg.xs[MaxLen] = bad
    /\ result.ok
    /\ result.v.xs[MaxLen] = bad

\* C10: with target YValue, whatever the policy and the incoming location,
\* deserialize_from_value never calls merge and never returns an error; when
\* it returns, it returns the value YValue::from builds, and it fails to
\* return only where YValue::from fails to return.
C10_SameAsFrom ==
    (op = "deser" /\ target = "YValue") =>
        /\ merges = <<>>
        /\ pc \in {"ret", "done"} => ret.ok
        /\ pc = "done" => result = Ok(YValue_from(arg).done)
        /\ pc = "aborted" => IsPanic(YValue_from(arg))

C10_Witness ==
    /\ op = "deser"
    /\ target = "YValue"
    /\ policy = "CollectAll"
    /\ base # Origin
    /\ pc = "done"
    /\ arg.c = "Map"
    /\ Len(arg.es) = 2
    /\ arg.es[2][2] = inner_seq
    /\ result.v = YMapping(arg.es)

====
